---- MODULE Spec2Model ----
(***************************************************************************)
(* Chem-E-Care (src/app.py): the event store, the orchestrator decision    *)
(* engine, the alert engine and the dashboard's todo extraction, as one    *)
(* state machine over the Streamlit session state and the two JSON files.  *)
(*                                                                         *)
(* Python values are represented as follows.                               *)
(*  - A str is a sequence of atoms; an atom is a TLA+ string standing for  *)
(*    a fixed chunk of characters ("|", " ", "\n", a label such as         *)
(*    "Risk:", or a word).  No atom used here occurs inside another, so    *)
(*    `in`, split, replace and strip on atom sequences agree with Python   *)
(*    on the characters.                                                   *)
(*  - A dict that is shared by reference (an event) is a cell of the       *)
(*    object heap eventObjs; lists and other dicts hold its index.         *)
(*  - An orchestrator answer is any Python value [kind, n]: a bool (n is   *)
(*    0 or 1), an int n, a str of length n, or None.                       *)
(*  - A datetime is the clock reading it was taken at; its isoformat()     *)
(*    string is the record [iso |-> reading].                              *)
(***************************************************************************)
EXTENDS Integers, Sequences, FiniteSets, TLC

VARIABLES
    events,             \* st.session_state.events: list of event objects (heap indices)
    eventObjs,          \* the event dicts themselves, by identity
    eventsFile,         \* content of events.json
    orchestrator_log,   \* st.session_state.orchestrator_log
    alerts,             \* st.session_state.alerts
    todos,              \* st.session_state.todos
    todosFile,          \* content of todos.json
    api_key,            \* whether GEMINI_API_KEY is configured
    clock,              \* the reading time.time() / datetime.now() returns
    lastOp,             \* the handler that ran last, with its inputs
    steps               \* how many handlers have run in this session

vars == <<events, eventObjs, eventsFile, orchestrator_log, alerts, todos,
          todosFile, api_key, clock, lastOp, steps>>

\* ------------------------------------------------------------------ bounds
\* a session is followed for this many handler runs
MaxSteps == 3

\* the readings the clock takes during a session; an earlier session ran at 0
ClockReadings == 1..2

\* ------------------------------------------------------------ Python strs
S(a) == <<a>>

Words(a, b) == <<a, " ", b>>

\* pat in text
Contains(text, pat) ==
    \E i \in 0..(Len(text) - Len(pat)) : SubSeq(text, i + 1, i + Len(pat)) = pat

\* text.replace(atom, '')
Replace(text, atom) == SelectSeq(text, LAMBDA a : a # atom)

RECURSIVE LStrip(_)
LStrip(text) ==
    IF text # <<>> /\ Head(text) = " " THEN LStrip(Tail(text)) ELSE text

RECURSIVE RStrip(_)
RStrip(text) ==
    IF text # <<>> /\ text[Len(text)] = " "
    THEN RStrip(SubSeq(text, 1, Len(text) - 1))
    ELSE text

\* text.strip()
Strip(text) == RStrip(LStrip(text))

\* text.split(sep): the pieces between the separators, empty pieces included
RECURSIVE SplitAcc(_, _, _)
SplitAcc(text, sep, cur) ==
    IF text = <<>> THEN <<cur>>
    ELSE IF Head(text) = sep
         THEN <<cur>> \o SplitAcc(Tail(text), sep, <<>>)
         ELSE SplitAcc(Tail(text), sep, Append(cur, Head(text)))

Split(text, sep) == SplitAcc(text, sep, <<>>)

\* text.splitlines(): like split on the line break, but an empty text has no
\* line and a final line break opens no further line
SplitLines(text) ==
    IF text = <<>> THEN <<>>
    ELSE IF text[Len(text)] = "\n"
         THEN Split(SubSeq(text, 1, Len(text) - 1), "\n")
         ELSE Split(text, "\n")

\* ---------------------------------------------------------- Python values
PyBool(b) == [kind |-> "bool", n |-> IF b THEN 1 ELSE 0]

PyInt(i) == [kind |-> "int", n |-> i]

PyStr(len) == [kind |-> "str", n |-> len]

PyNone == [kind |-> "NoneType", n |-> 0]

\* bool(v), as `if v` evaluates it
Truthy(v) == v.kind # "NoneType" /\ v.n # 0

IsBool(v) == v.kind = "bool"

AllBool(answers) == \A i \in 1..3 : IsBool(answers[i])

\* ------------------------------------------------------------- JSON files
\* A file is unreadable (missing, empty, truncated) or holds a JSON array.
Unreadable == [ok |-> FALSE, data |-> <<>>]

JsonFile(data) == [ok |-> TRUE, data |-> data]

IsoFormat(t) == [iso |-> t]

FromIsoFormat(s) == s.iso

\* one event as save_events serialises it
EventToJson(e) ==
    [id |-> e.id, type |-> e.type, details |-> e.details,
     time |-> IsoFormat(e.time), status |-> e.status]

\* one event as load_events rebuilds it
EventFromJson(j) ==
    [id |-> j.id, type |-> j.type, details |-> j.details,
     time |-> FromIsoFormat(j.time), status |-> j.status]

\* the list of event dicts a list of references denotes
Deref(objs, refs) == [i \in 1..Len(refs) |-> objs[refs[i]]]

save_events(objs, refs) ==
    JsonFile([i \in 1..Len(refs) |-> EventToJson(Deref(objs, refs)[i])])

load_events(file) ==
    IF file.ok THEN [i \in 1..Len(file.data) |-> EventFromJson(file.data[i])]
    ELSE <<>>

save_todos(ts) == JsonFile(ts)

load_todos(file) == IF file.ok THEN file.data ELSE <<>>

\* ------------------------------------------------------------ alert engine
RiskKeys == {S("High"), S("Medium"), S("Low"), S("Training"), S("Compliance")}

risk_to_alert ==
    [k \in RiskKeys |->
        CASE k = S("High")       -> [class |-> "alert-critical",   urgency |-> 60]
          [] k = S("Medium")     -> [class |-> "alert-asset",      urgency |-> 900]
          [] k = S("Low")        -> [class |-> "alert-rounding",   urgency |-> 14400]
          [] k = S("Training")   -> [class |-> "alert-training",   urgency |-> 86400]
          [] k = S("Compliance") -> [class |-> "alert-compliance", urgency |-> 3600]]

\* a lookup that falls back to the 'High' entry
risk_to_alert_get_high(risk_level) ==
    IF risk_level \in RiskKeys THEN risk_to_alert[risk_level]
    ELSE risk_to_alert[S("High")]

\* risk_to_alert.get(risk_level, risk_to_alert['Low'])
risk_to_alert_get(risk_level) ==
    IF risk_level \in RiskKeys THEN risk_to_alert[risk_level]
    ELSE risk_to_alert[S("Low")]

\* a value that is None or a str
NoneStr == [given |-> FALSE, text |-> <<>>]

Str(text) == [given |-> TRUE, text |-> text]

\* bool(v) of such a value
TruthyStr(v) == v.given /\ v.text # <<>>

\* auto_action or ''
OrEmpty(auto_action) == IF TruthyStr(auto_action) THEN auto_action.text ELSE <<>>

\* values random.random() returns, as fractions of a second
RandomFractions == {1, 2}

\* the ways n calls of random.random() can come out, in call order
Draws(n) == [1..n -> RandomFractions]

\* list.append(x) in place of list.insert(0, x)
InsertBack(list, x) == Append(list, x)

\* list.insert(0, x)
InsertFront(list, x) == <<x>> \o list

\* the alert_types table, which add_alert_dynamic does not consult
AlertTypeKeys ==
    { Words("Critical", "Safety"), Words("Compliance", "Drift"),
      <<"Asset", " ", "Failure", " ", "Risk">>, S("Rounding"),
      Words("Training", "Lapse") }

alert_types ==
    [k \in AlertTypeKeys |->
        CASE k = Words("Critical", "Safety") ->
               [class |-> "alert-critical", urgency |-> 60]
          [] k = Words("Compliance", "Drift") ->
               [class |-> "alert-compliance", urgency |-> 3600]
          [] k = <<"Asset", " ", "Failure", " ", "Risk">> ->
               [class |-> "alert-asset", urgency |-> 900]
          [] k = S("Rounding") ->
               [class |-> "alert-rounding", urgency |-> 14400]
          [] k = Words("Training", "Lapse") ->
               [class |-> "alert-training", urgency |-> 86400]]

\* an alert engine that styles the alert types by the alert_types table
add_alert_dynamic_typed(list, event, risk_level, auto_action, now, rnd) ==
    LET alert_def == IF risk_level \in AlertTypeKeys THEN alert_types[risk_level]
                     ELSE risk_to_alert_get(risk_level)
        alert == [id        |-> [time |-> now, random |-> rnd],
                  type      |-> risk_level,
                  class     |-> alert_def.class,
                  auto      |-> OrEmpty(auto_action),
                  event     |-> event,
                  created   |-> now,
                  urgency   |-> alert_def.urgency,
                  dismissed |-> FALSE]
    IN  InsertFront(list, alert)

\* add_alert_dynamic: the alert list after the call.  now is what time.time()
\* reads and rnd what random.random() returns, a fraction in [0, 1); the id
\* time.time() + random.random() is kept as its whole part and its fraction.
add_alert_dynamic(list, event, risk_level, auto_action, now, rnd) ==
    LET alert_def == risk_to_alert_get(risk_level)
        alert == [id        |-> [time |-> now, random |-> rnd],
                  type      |-> risk_level,
                  class     |-> alert_def.class,
                  auto      |-> OrEmpty(auto_action),
                  event     |-> event,
                  created   |-> now,
                  urgency   |-> alert_def.urgency,
                  dismissed |-> FALSE]
    IN  InsertFront(list, alert)

\* ------------------------------------------------------------ orchestrator
\* a classification that lets compliance take precedence over asset risk
ClassifyComplianceFirst(answers) ==
    IF Truthy(answers[1])
    THEN [outcome |-> "Escalate", color |-> "#ff4d4f",
          alert_type |-> Words("Critical", "Safety")]
    ELSE IF Truthy(answers[2]) \/ Truthy(answers[3])
         THEN [outcome |-> "Schedule Task", color |-> "#faad14",
               alert_type |-> IF Truthy(answers[2])
                              THEN Words("Compliance", "Drift")
                              ELSE <<"Asset", " ", "Failure", " ", "Risk">>]
         ELSE [outcome |-> "Auto-Resolve", color |-> "#52c41a",
               alert_type |-> S("Rounding")]

\* the if / elif / else of process_orchestrator_decision
Classify(answers) ==
    IF Truthy(answers[1])
    THEN [outcome |-> "Escalate", color |-> "#ff4d4f",
          alert_type |-> Words("Critical", "Safety")]
    ELSE IF Truthy(answers[2]) \/ Truthy(answers[3])
         THEN [outcome |-> "Schedule Task", color |-> "#faad14",
               alert_type |-> IF Truthy(answers[3])
                              THEN <<"Asset", " ", "Failure", " ", "Risk">>
                              ELSE Words("Compliance", "Drift")]
         ELSE [outcome |-> "Auto-Resolve", color |-> "#52c41a",
               alert_type |-> S("Rounding")]

\* the entry process_orchestrator_decision builds; it holds the event object
\* itself, not a copy
OrchestratorEntry(event, answers, now) ==
    LET c == Classify(answers)
    IN  [event |-> event, answers |-> answers, outcome |-> c.outcome,
         color |-> c.color, timestamp |-> now]

\* a run that forgets the status assignment
SetStatusSkipped(objs, event, outcome) == objs

\* event['status'] = outcome
SetStatus(objs, event, outcome) == [objs EXCEPT ![event].status = outcome]

\* ----------------------------------------------------------------- inputs
EventTypes == {"Incident Flag"}

EventDetails == {<<>>, Words("Pump", "leak"), Words("Sensor", "drift")}

BoolAnswers == {<<PyBool(a), PyBool(b), PyBool(c)>> : a, b, c \in BOOLEAN}

NonBoolAnswers ==
    { <<PyStr(3), PyNone, PyBool(FALSE)>>,
      <<PyNone, PyStr(0), PyInt(0)>> }

AnswerInputs == BoolAnswers \cup NonBoolAnswers

\* the answers operators give during a modelled session
SessionAnswers ==
    { <<PyBool(TRUE), PyBool(FALSE), PyBool(FALSE)>>,
      <<PyBool(FALSE), PyBool(FALSE), PyBool(FALSE)>>,
      <<PyStr(3), PyNone, PyBool(FALSE)>> }

\* events.json as an earlier session may have left it
SavedEvent ==
    [id |-> 0, type |-> "Incident Flag", details |-> Words("Pump", "leak"),
     time |-> IsoFormat(0), status |-> "Escalate"]


\* todos.json as an earlier session may have left it
SavedTodo ==
    [event |-> S("Valve"), risk |-> S("Medium"), action |-> S("Replace"),
     done |-> TRUE]

\* a first start finds neither file, a later start finds both
InitialFiles ==
    { [events |-> Unreadable, todos |-> Unreadable],
      [events |-> JsonFile(<<SavedEvent>>), todos |-> JsonFile(<<SavedTodo>>)] }

\* ------------------------------------------------------------------- Init
\* Module level of app.py: the session state is filled from the two files.
Init ==
    /\ \E f \in InitialFiles : eventsFile = f.events /\ todosFile = f.todos
    /\ eventObjs = load_events(eventsFile)
    /\ events = [i \in 1..Len(eventObjs) |-> i]
    /\ orchestrator_log = <<>>
    /\ alerts = <<>>
    /\ todos = load_todos(todosFile)
    /\ api_key \in BOOLEAN
    /\ clock = 1
    /\ lastOp = [op |-> "start"]
    /\ steps = 0

\* ---------------------------------------------------------------- actions
\* Time passes between two script runs.
Tick ==
    /\ clock + 1 \in ClockReadings
    /\ clock' = clock + 1
    /\ UNCHANGED <<events, eventObjs, eventsFile, orchestrator_log, alerts,
                   todos, todosFile, api_key, lastOp, steps>>

\* Entry Points page: the event form is submitted.
AddEvent(event_type, event_details) ==
    /\ steps < MaxSteps
    /\ steps' = steps + 1
    /\ lastOp' = [op |-> "add_event", details |-> event_details]
    /\ IF event_details # <<>>
       THEN LET event == [id |-> clock, type |-> event_type,
                          details |-> event_details, time |-> clock,
                          status |-> "Pending"]
                ref == Len(eventObjs) + 1
            IN  /\ eventObjs' = Append(eventObjs, event)
                /\ events' = InsertFront(events, ref)
                /\ eventsFile' = save_events(eventObjs', events')
       ELSE UNCHANGED <<events, eventObjs, eventsFile>>
    /\ UNCHANGED <<orchestrator_log, alerts, todos, todosFile, api_key, clock>>

\* process_orchestrator_decision(event, answers) on an event of the store;
\* rnd is what random.random() returns in add_alert_dynamic.
Orchestrate(event, answers, rnd) ==
    /\ steps < MaxSteps
    /\ steps' = steps + 1
    /\ lastOp' = [op |-> "orchestrator", event |-> event, answers |-> answers]
    /\ orchestrator_log' =
           InsertFront(orchestrator_log, OrchestratorEntry(event, answers, clock))
    /\ eventObjs' = SetStatus(eventObjs, event, Classify(answers).outcome)
    /\ alerts' = add_alert_dynamic(alerts, event, Classify(answers).alert_type,
                                   NoneStr, clock, rnd)
    /\ UNCHANGED <<events, eventsFile, todos, todosFile, api_key, clock>>

\* the line if not alert['dismissed'] of the alert loop
IsActive(alert) == ~alert.dismissed

\* a button that toggles the flag
ToggleAlert(list, i) == [list EXCEPT ![i].dismissed = ~@]

\* alert['dismissed'] = True on the i-th alert of the list
DismissAlert(list, i) == [list EXCEPT ![i].dismissed = TRUE]

\* the alerts the Alert Matrix loop renders, in loop order
RECURSIVE ActiveAlerts(_)
ActiveAlerts(list) ==
    IF list = <<>> THEN <<>>
    ELSE IF IsActive(Head(list))
         THEN <<Head(list)>> \o ActiveAlerts(Tail(list))
         ELSE ActiveAlerts(Tail(list))

\* str(d) of one decimal digit
Digit(d) ==
    CASE d = 0 -> "0" [] d = 1 -> "1" [] d = 2 -> "2" [] d = 3 -> "3"
      [] d = 4 -> "4" [] d = 5 -> "5" [] d = 6 -> "6" [] d = 7 -> "7"
      [] d = 8 -> "8" [] d = 9 -> "9"

\* the decimal numeral an f-string renders a non-negative int as
RECURSIVE Decimal(_)
Decimal(n) ==
    IF n < 10 THEN <<Digit(n)>> ELSE Append(Decimal(n \div 10), Digit(n % 10))

\* a format that still counts 3600 s as minutes and 86400 s as hours
format_urgency_inclusive(alert) ==
    IF alert.urgency <= 3600 THEN Append(Decimal(alert.urgency \div 60), "m")
    ELSE IF alert.urgency <= 86400
         THEN Append(Decimal(alert.urgency \div 3600), "h")
         ELSE Append(Decimal(alert.urgency \div 86400), "d")

\* format_urgency
format_urgency(alert) ==
    IF alert.urgency < 3600 THEN Append(Decimal(alert.urgency \div 60), "m")
    ELSE IF alert.urgency < 86400
         THEN Append(Decimal(alert.urgency \div 3600), "h")
         ELSE Append(Decimal(alert.urgency \div 86400), "d")

\* Alert Matrix page: every active alert is rendered with its urgency text;
\* the session state is only read.
AlertMatrix ==
    /\ steps < MaxSteps
    /\ steps' = steps + 1
    /\ lastOp' = [op |-> "alert_matrix",
                  shown |-> [i \in 1..Len(ActiveAlerts(alerts)) |->
                               [urgency |-> ActiveAlerts(alerts)[i].urgency,
                                text |-> format_urgency(ActiveAlerts(alerts)[i])]]]
    /\ UNCHANGED <<events, eventObjs, eventsFile, orchestrator_log, alerts,
                   todos, todosFile, api_key, clock>>

\* Alert Matrix page: the Dismiss button of a rendered alert is pressed.
Dismiss(i) ==
    /\ steps < MaxSteps
    /\ steps' = steps + 1
    /\ IsActive(alerts[i])
    /\ lastOp' = [op |-> "dismiss"]
    /\ alerts' = DismissAlert(alerts, i)
    /\ UNCHANGED <<events, eventObjs, eventsFile, orchestrator_log, todos,
                   todosFile, api_key, clock>>

\* ------------------------------------------------- dashboard todo list
RiskMarker == <<"|", " ", "Risk:">>

ActionMarker == <<"|", " ", "Action:">>

\* '| Risk:' in line and '| Action:' in line
Qualifies(line) == Contains(line, RiskMarker) /\ Contains(line, ActionMarker)

\* a parse that reads the risk and the action from each other's segment
ParseLineSwapped(line) ==
    LET parts == Split(line, "|")
    IN  [event  |-> Strip(Replace(parts[1], "Event:")),
         risk   |-> Strip(Replace(parts[3], "Risk:")),
         action |-> Strip(Replace(parts[2], "Action:")),
         done   |-> FALSE]

\* the todo dict built from a qualifying line
ParseLine(line) ==
    LET parts == Split(line, "|")
    IN  [event  |-> Strip(Replace(parts[1], "Event:")),
         risk   |-> Strip(Replace(parts[2], "Risk:")),
         action |-> Strip(Replace(parts[3], "Action:")),
         done   |-> FALSE]

\* a search that keeps the last matching event
RECURSIVE MatchingEventLast(_, _, _)
MatchingEventLast(objs, refs, event_part) ==
    IF refs = <<>> THEN 0
    ELSE IF Contains(objs[refs[Len(refs)]].details, event_part) THEN refs[Len(refs)]
         ELSE MatchingEventLast(objs, SubSeq(refs, 1, Len(refs) - 1), event_part)

\* next((e for e in events if event_part in e['details']), None); 0 is None
RECURSIVE MatchingEvent(_, _, _)
MatchingEvent(objs, refs, event_part) ==
    IF refs = <<>> THEN 0
    ELSE IF Contains(objs[Head(refs)].details, event_part) THEN Head(refs)
         ELSE MatchingEvent(objs, Tail(refs), event_part)

\* the number of add_alert_dynamic calls the loop over the lines makes
RECURSIVE AlertCalls(_, _, _)
AlertCalls(lines, objs, refs) ==
    IF lines = <<>> THEN 0
    ELSE (IF /\ Qualifies(Head(lines))
             /\ MatchingEvent(objs, refs, ParseLine(Head(lines)).event) # 0
          THEN 1 ELSE 0) + AlertCalls(Tail(lines), objs, refs)

\* the loop over ai_todo_text.splitlines(): new_todos and the alert list
\* once the lines are consumed.  draws holds what random.random() returns in
\* the add_alert_dynamic calls still to come, in call order.
RECURSIVE ParseLines(_, _, _, _, _, _, _)
ParseLines(lines, new_todos, list, objs, refs, now, draws) ==
    IF lines = <<>> THEN [new_todos |-> new_todos, alerts |-> list]
    ELSE IF Qualifies(Head(lines))
         THEN LET todo == ParseLine(Head(lines))
                  matching_event == MatchingEvent(objs, refs, todo.event)
              IN  IF matching_event # 0
                  THEN ParseLines(Tail(lines), Append(new_todos, todo),
                                  add_alert_dynamic(list, matching_event, todo.risk,
                                                    Str(todo.action), now,
                                                    Head(draws)),
                                  objs, refs, now, Tail(draws))
                  ELSE ParseLines(Tail(lines), Append(new_todos, todo), list,
                                  objs, refs, now, draws)
         ELSE ParseLines(Tail(lines), new_todos, list, objs, refs, now, draws)

\* the add_alert_dynamic calls a Dashboard run makes on an answer
DashboardAlertCalls(ai_todo_text) ==
    IF TruthyStr(ai_todo_text)
    THEN AlertCalls(SplitLines(ai_todo_text.text), eventObjs, events)
    ELSE 0

\* a merge that keeps the previous todos
MergeTodos(old, new_todos) == old \o new_todos

\* st.session_state.todos = new_todos
ReplaceTodos(old, new_todos) == new_todos

\* a response line in the format the prompt asks for
TodoLine(event, risk, action) ==
    <<"Event:", " ">> \o event \o <<" ", "|", " ", "Risk:", " ">> \o risk
        \o <<" ", "|", " ", "Action:", " ">> \o action

\* what call_gemini_api returns
Responses ==
    { NoneStr,
      Str(<<"API Error:", " ", "500">>),
      Str(TodoLine(Words("Pump", "leak"), S("High"), Words("Inspect", "valve"))
            \o <<"\n", "not", " ", "a", " ", "todo", " ", "line", "\n">>
            \o TodoLine(Words("Sensor", "drift"), S("Low"), S("Recalibrate"))),
      Str(<<" ", "|", " ", "Risk:", " ", "Training", " ", "|", " ", "Action:", " ">>),
      Str(<<>>),
      Str(TodoLine(S("Pump"), S("Medium"), S("Fix")) \o <<"\n">>
            \o TodoLine(Words("Sensor", "drift"), S("Compliance"), S("Audit"))
            \o <<"\n">>),
      Str(<<"Event:", " ", "leak", " ", "|", " ", "Action:", " ", "Fix", " ",
            "|", " ", "Risk:", " ", "Medium">>) }

\* the todo list after the checkbox loop: todos[idx]['done'] = checked
SetDone(ts, checked) == [i \in 1..Len(ts) |-> [ts[i] EXCEPT !.done = checked[i]]]

\* the checkbox loop over ai_todos: the todo list and todos.json after it;
\* checked[idx] is what the checkbox of todo idx returns, and save_todos runs
\* when a checkbox differs from its todo's flag
TodoList(ai_todos, file, checked) ==
    [todos |-> SetDone(ai_todos, checked),
     file  |-> IF SetDone(ai_todos, checked) # ai_todos
               THEN save_todos(SetDone(ai_todos, checked))
               ELSE file]

\* what the checkboxes of n todos can return
Checks(n) == [1..n -> BOOLEAN]

\* ai_todos, the list the checkbox loop shows: new_todos if there are any,
\* else the todos of the session
AiTodos(new_todos) ==
    IF new_todos # <<>> THEN ReplaceTodos(todos, new_todos) ELSE todos

\* Dashboard page, the todo list: no LLM call without a key or events; the
\* checkbox loop runs on the todos of the session.  checked[idx] is what the
\* checkbox of todo idx returns.
DashboardNoCall ==
    /\ steps < MaxSteps
    /\ steps' = steps + 1
    /\ ~(api_key /\ events # <<>>)
    /\ \E checked \in Checks(Len(todos)) :
         \E shown \in {TodoList(todos, todosFile, checked)} :
            /\ lastOp' = [op |-> "dashboard", called |-> FALSE,
                          response |-> NoneStr, new_todos |-> <<>>,
                          checked |-> checked]
            /\ todos' = shown.todos
            /\ todosFile' = shown.file
    /\ UNCHANGED <<events, eventObjs, eventsFile, orchestrator_log, alerts,
                   api_key, clock>>

\* Dashboard page, the todo list: the LLM is called and answers ai_todo_text,
\* the answer is parsed, and the checkbox loop runs on the resulting todos.
\* draws is what random.random() returns, call by call; checked[idx] is what
\* the checkbox of todo idx returns.
DashboardCall(ai_todo_text, draws) ==
    /\ steps < MaxSteps
    /\ steps' = steps + 1
    /\ api_key /\ events # <<>>
    /\ Len(draws) = DashboardAlertCalls(ai_todo_text)
    /\ \E parsed \in {IF TruthyStr(ai_todo_text)
                       THEN ParseLines(SplitLines(ai_todo_text.text), <<>>, alerts,
                                       eventObjs, events, clock, draws)
                       ELSE [new_todos |-> <<>>, alerts |-> alerts]} :
         \E ai_todos \in {AiTodos(parsed.new_todos)} :
            \E checked \in Checks(Len(ai_todos)) :
               \E shown \in {TodoList(ai_todos,
                                       IF parsed.new_todos # <<>>
                                       THEN save_todos(ai_todos) ELSE todosFile,
                                       checked)} :
                  /\ lastOp' = [op |-> "dashboard", called |-> TRUE,
                                response |-> ai_todo_text,
                                new_todos |-> parsed.new_todos,
                                checked |-> checked]
                  /\ alerts' = parsed.alerts
                  /\ todos' = shown.todos
                  /\ todosFile' = shown.file
    /\ UNCHANGED <<events, eventObjs, eventsFile, orchestrator_log, api_key, clock>>

Next ==
    \/ Tick
    \/ \E ty \in EventTypes, d \in EventDetails : AddEvent(ty, d)
    \/ \E i \in 1..Len(events), a \in SessionAnswers, rnd \in RandomFractions :
          Orchestrate(events[i], a, rnd)
    \/ \E i \in 1..Len(alerts) : Dismiss(i)
    \/ DashboardNoCall
    \/ \E r \in Responses : \E ds \in Draws(DashboardAlertCalls(r)) :
          DashboardCall(r, ds)

Spec == Init /\ [][Next]_vars

\* The orchestrator alone, over every answer input.
NextOrchestrator ==
    \/ \E ty \in EventTypes, d \in EventDetails : AddEvent(ty, d)
    \/ \E i \in 1..Len(events), a \in AnswerInputs, rnd \in RandomFractions :
          Orchestrate(events[i], a, rnd)

SpecOrchestrator == Init /\ [][NextOrchestrator]_vars

\* The two callers of the alert engine: the orchestrator and the dashboard.
NextAlerts ==
    \/ \E i \in 1..Len(events), a \in SessionAnswers, rnd \in RandomFractions :
          Orchestrate(events[i], a, rnd)
    \/ DashboardNoCall
    \/ \E r \in Responses : \E ds \in Draws(DashboardAlertCalls(r)) :
          DashboardCall(r, ds)

SpecAlerts == Init /\ [][NextAlerts]_vars

\* The event form, which puts events in the store, and the dashboard.
NextTodoAlerts ==
    \/ \E ty \in EventTypes, d \in EventDetails : AddEvent(ty, d)
    \/ DashboardNoCall
    \/ \E r \in Responses : \E ds \in Draws(DashboardAlertCalls(r)) :
          DashboardCall(r, ds)

SpecTodoAlerts == Init /\ [][NextTodoAlerts]_vars

\* segments a response line is put together from
FirstSegments == {<<>>, <<"Event:", " ", "Tank", " ">>}

LaterSegments ==
    { <<" ", "Risk:", " ", "High", " ">>,
      <<" ", "Action:", " ", "Fix", " ">>,
      <<" ", "x", " ">>,
      <<"Risk:", "Low">> }

\* one-line responses of three segments, and of four behind 'Event: Tank'
ThreeSegmentLines ==
    {a \o <<"|">> \o b \o <<"|">> \o c :
        a \in FirstSegments, b \in LaterSegments, c \in LaterSegments}

FourSegmentLines ==
    {<<"Event:", " ", "Tank", " ", "|">> \o b \o <<"|">> \o c \o <<"|">> \o d :
        b \in {<<" ", "x", " ">>, <<" ", "Risk:", " ", "High", " ">>},
        c \in LaterSegments,
        d \in {<<" ", "Risk:", " ", "High", " ">>, <<" ", "Action:", " ", "Fix", " ">>}}

\* answers of two todo lines, with a line that is no todo between or after
TwoLineInputs ==
    { Str(TodoLine(S("Tank"), S("High"), S("Fix"))
            \o <<"\n", "not", " ", "a", " ", "todo", " ", "line", "\n">>
            \o TodoLine(S("Valve"), S("Low"), S("Go"))),
      Str(TodoLine(S("Valve"), S("Low"), S("Go")) \o <<"\n">>
            \o TodoLine(S("Tank"), S("High"), S("Fix")) \o <<"\n", "\n">>) }

\* the response texts the parser is run on
ParseInputs ==
    {NoneStr, Str(<<"API Error:", " ", "500">>), Str(<<>>)}
        \cup TwoLineInputs
        \cup {Str(l) : l \in ThreeSegmentLines \cup FourSegmentLines}

\* The dashboard alone, over every parser input.
NextParse ==
    \/ \E r \in ParseInputs : \E ds \in Draws(DashboardAlertCalls(r)) :
          DashboardCall(r, ds)

SpecParse == Init /\ [][NextParse]_vars

\* the urgencies format_urgency is called on by itself
UrgencyInputs ==
    {0, 1, 59, 60, 61, 119, 120, 599, 600, 899, 900, 3540, 3599, 3600, 3601, 7199, 7200, 14400, 35999,
                 36000, 86399, 86400, 86401, 172799, 172800}

\* format_urgency is called on an alert of urgency u.
FormatUrgencyCall(u) ==
    /\ steps < MaxSteps
    /\ steps' = steps + 1
    /\ lastOp' = [op |-> "format_urgency", urgency |-> u,
                  text |-> format_urgency([urgency |-> u])]
    /\ UNCHANGED <<events, eventObjs, eventsFile, orchestrator_log, alerts,
                   todos, todosFile, api_key, clock>>

\* The Dashboard, which raises alerts of the risk table's urgencies, the
\* Alert Matrix page, and format_urgency called by itself.
NextUrgency ==
    \/ \E r \in Responses : \E ds \in Draws(DashboardAlertCalls(r)) :
          DashboardCall(r, ds)
    \/ AlertMatrix
    \/ \E i \in 1..Len(alerts) : Dismiss(i)
    \/ \E u \in UrgencyInputs : FormatUrgencyCall(u)

SpecUrgency == Init /\ [][NextUrgency]_vars

\* ------------------------------------------------------------- properties
\* a step in which the handler op ran
Ran(op) == steps' = steps + 1 /\ lastOp'.op = op

\* the alert or log entry that is k-th from the end of a list; insertions at
\* the front leave it there
FromEnd(list, k) == list[Len(list) - k + 1]

\* the classification the specification tabulates, first match wins
ExpectedClass(safetyImpact, complianceDeviation, assetHealthRisk) ==
    CASE safetyImpact ->
           [outcome |-> "Escalate", color |-> "#ff4d4f",
            alert_type |-> <<"Critical", " ", "Safety">>]
      [] ~safetyImpact /\ assetHealthRisk ->
           [outcome |-> "Schedule Task", color |-> "#faad14",
            alert_type |-> <<"Asset", " ", "Failure", " ", "Risk">>]
      [] ~safetyImpact /\ ~assetHealthRisk /\ complianceDeviation ->
           [outcome |-> "Schedule Task", color |-> "#faad14",
            alert_type |-> <<"Compliance", " ", "Drift">>]
      [] OTHER ->
           [outcome |-> "Auto-Resolve", color |-> "#52c41a",
            alert_type |-> <<"Rounding">>]

\* C1: whenever the orchestrator runs on three booleans, the outcome and
\* color it logs, the status it sets and the type of the alert it emits are
\* those of the first matching row of the table (safety, then asset risk,
\* then compliance, else auto-resolve), whatever the event and the state.
C1_Classification ==
    [][(Ran("orchestrator") /\ AllBool(lastOp'.answers)) =>
         LET a == lastOp'.answers
             want == ExpectedClass(a[1].n = 1, a[2].n = 1, a[3].n = 1)
         IN  /\ orchestrator_log'[1].outcome = want.outcome
             /\ orchestrator_log'[1].color = want.color
             /\ eventObjs'[lastOp'.event].status = want.outcome
             /\ alerts'[1].type = want.alert_type]_vars

\* a run on (False, True, True) was classified Schedule Task / Asset Failure Risk
C1_Witness ==
    /\ lastOp.op = "orchestrator"
    /\ lastOp.answers = <<PyBool(FALSE), PyBool(TRUE), PyBool(TRUE)>>
    /\ orchestrator_log[1].outcome = "Schedule Task"
    /\ alerts[1].type = <<"Asset", " ", "Failure", " ", "Risk">>

\* C2: every orchestrator run puts exactly one new entry at the front of the
\* decision log (with the given answers and the computed outcome) and exactly
\* one new, undismissed alert for the event at the front of the alert list,
\* and leaves the event's status equal to the outcome.
C2_OrchestratorRun ==
    [][Ran("orchestrator") =>
         LET outcome == Classify(lastOp'.answers).outcome
         IN  /\ Len(orchestrator_log') = Len(orchestrator_log) + 1
             /\ Tail(orchestrator_log') = orchestrator_log
             /\ orchestrator_log'[1].answers = lastOp'.answers
             /\ orchestrator_log'[1].outcome = outcome
             /\ Len(alerts') = Len(alerts) + 1
             /\ Tail(alerts') = alerts
             /\ ~alerts'[1].dismissed
             /\ alerts'[1].event = lastOp'.event
             /\ eventObjs'[lastOp'.event].status = outcome]_vars

\* two runs on the same event left two log entries and two alerts
C2_Witness ==
    /\ lastOp.op = "orchestrator"
    /\ Len(orchestrator_log) = 2
    /\ orchestrator_log[1].event = orchestrator_log[2].event
    /\ Len(alerts) = 2
    /\ alerts[1].event = alerts[2].event
    /\ eventObjs[lastOp.event].status = orchestrator_log[1].outcome

\* C3: between two script runs the events file, read back, equals the events
\* in memory: same order, same fields, status included.
C3_DurableEqualsMemory ==
    load_events(eventsFile) = Deref(eventObjs, events)

\* C4: what a decision-log entry records (the event's fields, the answers,
\* the outcome, the color) never changes once the entry is in the log.
C4_DecisionImmutable ==
    [][/\ Len(orchestrator_log') >= Len(orchestrator_log)
       /\ \A k \in 1..Len(orchestrator_log) :
            LET old == FromEnd(orchestrator_log, k)
                new == FromEnd(orchestrator_log', k)
            IN  /\ new.answers = old.answers
                /\ new.outcome = old.outcome
                /\ new.color = old.color
                /\ eventObjs'[new.event] = eventObjs[old.event]]_vars

\* C5: an orchestrator call whose answers are not all booleans changes
\* neither the decision log nor the alerts nor any event.
C5_NonBooleanRejected ==
    [][(Ran("orchestrator") /\ ~AllBool(lastOp'.answers)) =>
         UNCHANGED <<orchestrator_log, alerts, eventObjs>>]_vars

\* C6: no two events of the store have the same id.
C6_UniqueIds ==
    \A i, j \in 1..Len(events) :
        i # j => eventObjs[events[i]].id # eventObjs[events[j]].id

\* C7: submitting an event with non-empty details puts a new Pending event
\* with those details at index 0; the events stored before follow it in their
\* order with their fields unchanged.
C7_AppendAtFront ==
    [][(Ran("add_event") /\ lastOp'.details # <<>>) =>
         /\ Len(events') = Len(events) + 1
         /\ eventObjs'[events'[1]].status = "Pending"
         /\ eventObjs'[events'[1]].details = lastOp'.details
         /\ Deref(eventObjs', Tail(events')) = Deref(eventObjs, events)]_vars

\* an event was added in front of an event that had been triaged before
C7_Witness ==
    /\ lastOp.op = "add_event"
    /\ Len(events) >= 2
    /\ eventObjs[events[1]].status = "Pending"
    /\ eventObjs[events[2]].status = "Auto-Resolve"

\* the alerts of a list that are not dismissed, in list order
Undismissed(list) == SelectSeq(list, LAMBDA a : a.dismissed = FALSE)

\* C8: a dismissal sets the dismissed flag of one alert and nothing else;
\* dismissing an alert a second time changes nothing; the active view is
\* exactly the undismissed alerts in list order; and a dismissed alert stays
\* in the list, dismissed, through every later operation.
C8_Dismiss ==
    [][/\ Ran("dismiss") =>
            /\ \E i \in 1..Len(alerts) :
                 /\ ~alerts[i].dismissed
                 /\ alerts' = [alerts EXCEPT ![i].dismissed = TRUE]
            /\ UNCHANGED <<events, eventObjs, eventsFile, orchestrator_log,
                           todos, todosFile>>
       /\ \A i \in 1..Len(alerts') :
            alerts'[i].dismissed =>
                DismissAlert(alerts', i) = alerts'
       /\ \A i \in 1..Len(alerts') :
            DismissAlert(DismissAlert(alerts', i), i) = DismissAlert(alerts', i)
       /\ ActiveAlerts(alerts') = Undismissed(alerts')
       /\ Len(alerts') >= Len(alerts)
       /\ \A k \in 1..Len(alerts) :
            FromEnd(alerts, k).dismissed =>
                FromEnd(alerts', k) = FromEnd(alerts, k)]_vars

\* a dismissed alert is still in the list, behind a newer active one
C8_Witness ==
    /\ Len(alerts) = 2
    /\ alerts[2].dismissed
    /\ ~alerts[1].dismissed
    /\ ActiveAlerts(alerts) = <<alerts[1]>>

\* the risk table as the specification gives it, 'Low' for any other label
ExpectedStyle(riskLabel) ==
    CASE riskLabel = <<"High">>       -> [class |-> "alert-critical",   urgency |-> 60]
      [] riskLabel = <<"Medium">>     -> [class |-> "alert-asset",      urgency |-> 900]
      [] riskLabel = <<"Low">>        -> [class |-> "alert-rounding",   urgency |-> 14400]
      [] riskLabel = <<"Training">>   -> [class |-> "alert-training",   urgency |-> 86400]
      [] riskLabel = <<"Compliance">> -> [class |-> "alert-compliance", urgency |-> 3600]
      [] OTHER                        -> [class |-> "alert-rounding",   urgency |-> 14400]

\* the todos a response yields, for the state the dashboard ran in
ParsedTodos(response) ==
    IF TruthyStr(response)
    THEN LET lines == SplitLines(response.text)
         IN  ParseLines(lines, <<>>, alerts, eventObjs, events, clock,
                        [i \in 1..Len(lines) |-> 1]).new_todos
    ELSE <<>>

\* C9: every alert that is added goes in at the front, undismissed, with its
\* risk label as its type and the style class and urgency of that label's
\* table entry, or of the 'Low' entry for a label outside the table; its auto
\* action is empty when none is given (an orchestrator alert) and the given
\* action otherwise (a todo's action).
C9_AddAlert ==
    [][Len(alerts') > Len(alerts) =>
         \A parsed \in {IF lastOp'.op = "dashboard"
                        THEN ParsedTodos(lastOp'.response) ELSE <<>>} :
             LET added == Len(alerts') - Len(alerts)
             IN  /\ SubSeq(alerts', added + 1, Len(alerts')) = alerts
                 /\ \A i \in 1..added :
                      /\ ~alerts'[i].dismissed
                      /\ alerts'[i].class = ExpectedStyle(alerts'[i].type).class
                      /\ alerts'[i].urgency = ExpectedStyle(alerts'[i].type).urgency
                      /\ lastOp'.op = "orchestrator" =>
                           /\ alerts'[i].type = Classify(lastOp'.answers).alert_type
                           /\ alerts'[i].auto = <<>>
                      /\ lastOp'.op = "dashboard" =>
                           \E t \in 1..Len(parsed) :
                               /\ alerts'[i].type = parsed[t].risk
                               /\ alerts'[i].auto = parsed[t].action]_vars

\* alerts exist for a table label with an empty given action and for a label
\* outside the table
C9_Witness ==
    /\ Len(alerts) = 2
    /\ alerts[2].type = <<"Training">>
    /\ alerts[2].urgency = 86400
    /\ alerts[2].auto = <<>>
    /\ alerts[1].type = <<"Action:", " ", "Fix">>
    /\ alerts[1].urgency = 14400
    /\ alerts[1].auto = <<"Risk:", " ", "Medium">>

\* C10 as stated: a dashboard run whose response yields at least one todo
\* leaves exactly the parsed todos in memory and in the todos file; a run whose
\* response yields none (or that makes no call) leaves both as they were.
C10_ReplaceTodos ==
    [][Ran("dashboard") =>
         \A new_todos \in {IF lastOp'.called THEN ParsedTodos(lastOp'.response)
                           ELSE <<>>} :
             IF new_todos # <<>>
             THEN /\ todos' = new_todos
                  /\ todosFile'.ok
                  /\ load_todos(todosFile') = new_todos
             ELSE /\ todos' = todos
                  /\ todosFile' = todosFile]_vars

\* the todos ts with the flags the checkboxes returned as their done flags
Checked(ts, flags) ==
    [i \in 1..Len(ts) |->
        [event |-> ts[i].event, risk |-> ts[i].risk, action |-> ts[i].action,
         done |-> flags[i]]]

\* C10, amended: after a dashboard run whose response yields at least one todo
\* the todos in memory and in the todos file are the parsed todos, in order and
\* with nothing of the previous collection, each with the done flag its
\* checkbox returned in that run; after a run whose response yields none (or
\* that makes no call) they are the previous todos with the done flags the
\* checkboxes returned, and the file is rewritten only if a flag changed.
C10_ReplaceThenChecked ==
    [][Ran("dashboard") =>
         \A new_todos \in {IF lastOp'.called THEN ParsedTodos(lastOp'.response)
                           ELSE <<>>} :
             IF new_todos # <<>>
             THEN /\ todos' = Checked(new_todos, lastOp'.checked)
                  /\ todosFile'.ok
                  /\ load_todos(todosFile') = todos'
             ELSE /\ todos' = Checked(todos, lastOp'.checked)
                  /\ IF todos' = todos THEN todosFile' = todosFile
                     ELSE todosFile'.ok /\ load_todos(todosFile') = todos']_vars

\* the two todos of a response replaced the todo a previous session had
\* saved, and the checkbox of the first one came back checked
C10_Witness ==
    /\ lastOp.op = "dashboard"
    /\ Len(lastOp.new_todos) = 2
    /\ lastOp.checked = <<TRUE, FALSE>>
    /\ eventsFile.ok
    /\ Len(todos) = 2
    /\ todos[1].event = <<"Pump", " ", "leak">>
    /\ todos[1].done
    /\ todos[2].risk = <<"Low">>
    /\ ~todos[2].done
    /\ todosFile = JsonFile(todos)

\* the k-th '|'-separated segment of a line, its label removed, trimmed
Field(line, k, label) == Strip(Replace(Split(line, "|")[k], label))

\* the lines of a text that contain both markers, in line order
BothMarkers(text) ==
    SelectSeq(SplitLines(text),
              LAMBDA l : Contains(l, <<"|", " ", "Risk:">>)
                         /\ Contains(l, <<"|", " ", "Action:">>))

\* one todo per line of lines, in line order
ExpectedTodos(lines) ==
    [i \in 1..Len(lines) |->
        [event  |-> Field(lines[i], 1, "Event:"),
         risk   |-> Field(lines[i], 2, "Risk:"),
         action |-> Field(lines[i], 3, "Action:"),
         done   |-> FALSE]]

\* C11: parsing a response yields one todo, not done, for each line that
\* contains both '| Risk:' and '| Action:' and none for any other line, in
\* line order; its fields are the first three '|'-separated segments without
\* their labels, trimmed; every such line has the three segments the parser
\* indexes, so no response raises.
C11_TodoParsing ==
    [][(Ran("dashboard") /\ lastOp'.called /\ TruthyStr(lastOp'.response)) =>
         \A lines \in {BothMarkers(lastOp'.response.text)} :
            \A expected \in {ExpectedTodos(lines)} :
               /\ \A i \in 1..Len(lines) : Len(Split(lines[i], "|")) >= 3
               /\ lastOp'.new_todos = expected
               /\ expected # <<>> => todos' = Checked(expected, lastOp'.checked)
               /\ expected = <<>> => todos' = Checked(todos, lastOp'.checked)]_vars

\* a line with the action marker before the risk marker was parsed
C11_Witness ==
    /\ lastOp.op = "dashboard"
    /\ lastOp.new_todos = todos
    /\ todos = <<[event |-> <<"Tank">>, risk |-> <<"Action:", " ", "Fix">>,
                 action |-> <<"Risk:", " ", "High">>, done |-> FALSE]>>

\* the store positions of the events whose details contain a text
MatchPositions(text) ==
    {i \in 1..Len(events) : Contains(eventObjs[events[i]].details, text)}

\* the first event in store order whose details contain a text
FirstMatch(text) ==
    events[CHOOSE i \in MatchPositions(text) : \A j \in MatchPositions(text) : i <= j]

\* the todos of a response whose event text some stored event contains
MatchedTodos(response) ==
    SelectSeq(ParsedTodos(response), LAMBDA t : MatchPositions(t.event) # {})

\* C12: a dashboard run adds one alert per parsed todo whose event text some
\* stored event's details contain, for the first such event in store order,
\* with the todo's risk as type and the todo's action as auto action, and no
\* alert for any other todo; it changes no event, in memory or in the file.
C12_TodoAlerts ==
    [][Ran("dashboard") =>
         \A matched \in {IF lastOp'.called THEN MatchedTodos(lastOp'.response)
                         ELSE <<>>} :
             LET n == Len(matched)
             IN  /\ Len(alerts') = Len(alerts) + n
                 /\ SubSeq(alerts', n + 1, Len(alerts')) = alerts
                 /\ \A j \in 1..n :
                      /\ alerts'[n - j + 1].event = FirstMatch(matched[j].event)
                      /\ alerts'[n - j + 1].type = matched[j].risk
                      /\ alerts'[n - j + 1].auto = matched[j].action
                 /\ UNCHANGED <<events, eventObjs, eventsFile>>]_vars

\* of two todos, the one for 'Pump leak' raised one alert, for the newer of
\* two events with those details, and the one for 'Sensor drift' raised none
C12_Witness ==
    /\ lastOp.op = "dashboard"
    /\ Len(events) = 2
    /\ eventObjs[events[1]].details = <<"Pump", " ", "leak">>
    /\ eventObjs[events[2]].details = <<"Pump", " ", "leak">>
    /\ Len(todos) = 2
    /\ todos[2].event = <<"Sensor", " ", "drift">>
    /\ Len(alerts) = 1
    /\ alerts[1].event = events[1]
    /\ alerts[1].type = <<"High">>
    /\ alerts[1].auto = <<"Inspect", " ", "valve">>

\* floor(u / d)
Floor(u, d) == CHOOSE q \in 0..u : q * d <= u /\ u < (q + 1) * d

\* the urgency texts the specification lists
UrgencyExamples ==
    { [urgency |-> 59,    text |-> <<"0", "m">>],
      [urgency |-> 60,    text |-> <<"1", "m">>],
      [urgency |-> 900,   text |-> <<"1", "5", "m">>],
      [urgency |-> 3600,  text |-> <<"1", "h">>],
      [urgency |-> 86399, text |-> <<"2", "3", "h">>],
      [urgency |-> 86400, text |-> <<"1", "d">>] }

\* C13: an urgency u is rendered as floor(u/60) and 'm' below 3600, as
\* floor(u/3600) and 'h' from 3600 to below 86400, as floor(u/86400) and 'd'
\* from 86400 on; 59, 60, 900, 3600, 86399 and 86400 give 0m, 1m, 15m, 1h,
\* 23h and 1d.
C13_FormatUrgency ==
    \A r \in (IF lastOp.op = "alert_matrix"
              THEN {lastOp.shown[i] : i \in 1..Len(lastOp.shown)}
              ELSE IF lastOp.op = "format_urgency"
                   THEN {[urgency |-> lastOp.urgency, text |-> lastOp.text]}
                   ELSE {}) :
        LET u == r.urgency
            text == r.text
        IN  /\ u < 3600 => text = Decimal(Floor(u, 60)) \o <<"m">>
            /\ (3600 <= u /\ u < 86400) =>
                   text = Decimal(Floor(u, 3600)) \o <<"h">>
            /\ u >= 86400 => text = Decimal(Floor(u, 86400)) \o <<"d">>
            /\ \A ex \in UrgencyExamples : u = ex.urgency => text = ex.text

\* format_urgency rendered an urgency of 86399 as 23h, in a session whose
\* alert list holds an alert of urgency 60
C13_Witness ==
    /\ lastOp = [op |-> "format_urgency", urgency |-> 86399,
                 text |-> <<"2", "3", "h">>]
    /\ \E i \in 1..Len(alerts) : alerts[i].urgency = 60

\* the alert types the orchestrator derives
DerivedAlertTypes ==
    { <<"Critical", " ", "Safety">>, <<"Asset", " ", "Failure", " ", "Risk">>,
      <<"Compliance", " ", "Drift">>, <<"Rounding">> }

\* C14: whatever the answers, the alert an orchestrator run emits has one of
\* the four derived types as its type, none of them a key of the risk table,
\* and so the 'Low' entry's urgency of 14400 s and class alert-rounding, and
\* an empty auto action.
C14_OrchestratorAlertStyle ==
    [][Ran("orchestrator") =>
         /\ alerts'[1].type \in DerivedAlertTypes
         /\ alerts'[1].type \notin
              {<<"High">>, <<"Medium">>, <<"Low">>, <<"Training">>, <<"Compliance">>}
         /\ alerts'[1].urgency = 14400
         /\ alerts'[1].class = "alert-rounding"
         /\ alerts'[1].auto = <<>>]_vars

\* an Escalate run and an Auto-Resolve run left alerts that differ in type
\* only as far as style and urgency go
C14_Witness ==
    /\ Len(orchestrator_log) = 2
    /\ Len(alerts) = 2
    /\ orchestrator_log[1].outcome = "Escalate"
    /\ orchestrator_log[2].outcome = "Auto-Resolve"
    /\ alerts[1].type = <<"Critical", " ", "Safety">>
    /\ alerts[2].type = <<"Rounding">>
    /\ alerts[1].urgency = alerts[2].urgency
    /\ alerts[1].class = alerts[2].class
    /\ alerts[1].auto = alerts[2].auto

====
